---- MODULE Spec2Model ----
(***************************************************************************)
(* Model of the YouTube downloader: the command-line batch script          *)
(* (yt_download.py) and the form handlers (youtube_downloader_ui.py).      *)
(*                                                                         *)
(* Three specifications share the variables:                               *)
(*   Spec     a batch run (CSV read, per-item loop, summary / packaging)   *)
(*   SelSpec  stream selection over arbitrary stream lists                 *)
(*   SanSpec  filename construction over arbitrary identifiers and titles  *)
(*                                                                         *)
(* Strings are sequences of one-character strings.                         *)
(***************************************************************************)
EXTENDS Integers, Sequences, FiniteSets, TLC

VARIABLES
    \* ---- batch run
    variant,               \* "cli" (yt_download.main) or "form" (process_csv_download)
    csv,                   \* the input table: [hasUrl, hasVid, rows]
    pc,                    \* "start", "loop", "done", "aborted", "crashed"
    quality,               \* requested quality
    num_videos,            \* CLI: number of entries of video_data to process
    video_data,            \* CLI: list of [video_id, url]
    urls_to_download,      \* form: list of urls
    i,                     \* number of loop iterations completed
    successful_downloads,
    failed_downloads,
    downloaded_files,      \* form: list of paths returned by stream.download
    fs,                    \* files present in the download directory
    resolved,              \* urls handed to YouTube(...), in order
    last,                  \* what the last iteration did
    result,                \* the file handed back by process_csv_download
    \* ---- stream selection
    yt_streams,            \* the stream list of a resolved video
    stream,                \* the selected stream, or NoStream
    selBy,                 \* which variant selected
    \* ---- filename construction
    title,                 \* yt.title
    video_id,              \* identifier prefix
    safe_title,            \* form: the cleaned title
    filename,              \* the filename given to stream.download
    prev_safe,             \* the cleaned title before the sanitizer was re-applied
    prev_filename,         \* the filename before the sanitizer was re-applied
    sanBy                  \* which construction produced filename

vars == << variant, csv, pc, quality, num_videos, video_data, urls_to_download, i,
           successful_downloads, failed_downloads, downloaded_files, fs, resolved,
           last, result, yt_streams, stream, selBy, title, video_id, safe_title,
           filename, prev_safe, prev_filename, sanBy >>

batchVars == << variant, csv, pc, num_videos, video_data, urls_to_download, i,
                successful_downloads, failed_downloads, downloaded_files, fs,
                resolved, last, result >>
selVars == << yt_streams, stream, selBy >>
sanVars == << title, video_id, safe_title, filename, prev_safe, prev_filename, sanBy >>

(***************************************************************************)
(* Bounds                                                                  *)
(***************************************************************************)
MaxRows == 3
MaxStreams == 3
MaxTitleLen == 3
MaxIdLen == 1

BoundedSeq(S, n) == UNION { [1..k -> S] : k \in 0..n }

(***************************************************************************)
(* Characters and strings                                                  *)
(***************************************************************************)
Letters == { "a","b","c","d","e","f","g","h","i","j","k","l","m","n","o","p","q",
             "r","s","t","u","v","w","x","y","z" }
Digits == { "0","1","2","3","4","5","6","7","8","9" }

\* str.isalnum() of one character
isalnum(c) == c \in Letters \cup Digits

\* str.isspace() of one character
isspace(c) == c = " "

\* the membership test  c in (' ', '-', '_')
InKept(c) == c \in { " ", "-", "_" }

KeepChar(c) == isalnum(c) \/ InKept(c)

RECURSIVE rstrip(_)
rstrip(s) ==
    IF s = << >> THEN << >>
    ELSE IF isspace(s[Len(s)]) THEN rstrip(SubSeq(s, 1, Len(s) - 1))
    ELSE s

RECURSIVE lstrip(_)
lstrip(s) ==
    IF s = << >> THEN << >>
    ELSE IF isspace(s[1]) THEN lstrip(Tail(s))
    ELSE s

strip(s) == lstrip(rstrip(s))

Mp4Ext == << ".", "m", "p", "4" >>

DigitChar(d) ==
    CASE d = 0 -> "0" [] d = 1 -> "1" [] d = 2 -> "2" [] d = 3 -> "3" [] d = 4 -> "4"
      [] d = 5 -> "5" [] d = 6 -> "6" [] d = 7 -> "7" [] d = 8 -> "8" [] d = 9 -> "9"

\* str(n) for n >= 0
RECURSIVE IntStr(_)
IntStr(n) == IF n < 10 THEN << DigitChar(n) >>
             ELSE IntStr(n \div 10) \o << DigitChar(n % 10) >>

\* f"video_{i+1}"
Placeholder(n) == << "v", "i", "d", "e", "o", "_" >> \o IntStr(n)

(***************************************************************************)
(* Filename construction                                                   *)
(***************************************************************************)
\* The mutant of CleanName: strips before it filters.
CleanName_StripFirst(s) == SelectSeq(rstrip(s), KeepChar)

\* "".join(c for c in s if c.isalnum() or c in (' ', '-', '_')).rstrip()
CleanName(s) == rstrip(SelectSeq(s, KeepChar))

\* yt_download.download_video: the name given to stream.download
CliFilenameOf(vid, t) == CleanName(vid \o << "_" >> \o t) \o Mp4Ext

\* youtube_downloader_ui.process_csv_download: f"{video_id}_{safe_title}.mp4"
FormFilenameOf(vid, t) == vid \o << "_" >> \o CleanName(t) \o Mp4Ext

\* youtube_downloader_ui.download_single_video: f"{safe_title}.mp4"
SingleFilenameOf(t) == CleanName(t) \o Mp4Ext

(***************************************************************************)
(* Streams (pytubefix StreamQuery, as the handlers use it)                 *)
(***************************************************************************)
Str144 == << "1", "4", "4", "p" >>
Str360 == << "3", "6", "0", "p" >>
Str480 == << "4", "8", "0", "p" >>
Str720 == << "7", "2", "0", "p" >>
Str1080 == << "1", "0", "8", "0", "p" >>
StrHighest == << "h", "i", "g", "h", "e", "s", "t" >>
StrMp4 == << "m", "p", "4" >>
StrWebm == << "w", "e", "b", "m" >>

\* resolution of an audio-only stream (None)
NoRes == << "<None>" >>

\* the result of .first() on an empty query (None)
NoStream == [none |-> TRUE]

MkStream(p, sub, res, aud) ==
    [progressive |-> p, subtype |-> sub, resolution |-> res, audio |-> aud]

DigitVal(c) ==
    CASE c = "0" -> 0 [] c = "1" -> 1 [] c = "2" -> 2 [] c = "3" -> 3 [] c = "4" -> 4
      [] c = "5" -> 5 [] c = "6" -> 6 [] c = "7" -> 7 [] c = "8" -> 8 [] c = "9" -> 9

IsDigit(c) == c \in Digits

RECURSIVE DigitsValue(_)
DigitsValue(ds) == IF ds = << >> THEN 0
                   ELSE 10 * DigitsValue(SubSeq(ds, 1, Len(ds) - 1)) + DigitVal(ds[Len(ds)])

\* int("".join(filter(str.isdigit, resolution)))
ResolutionKey(res) == DigitsValue(SelectSeq(res, IsDigit))

IsProgressiveMp4(s) == s.progressive /\ s.subtype = StrMp4
IsAdaptiveVideoMp4(s) ==
    ~s.progressive /\ s.subtype = StrMp4 /\ s.resolution # NoRes /\ ~s.audio

\* streams.filter(progressive=True, file_extension='mp4')
FilterProgressiveMp4(streams) == SelectSeq(streams, IsProgressiveMp4)

\* streams.filter(progressive=True, file_extension='mp4', res=quality)
FilterProgressiveMp4Res(streams, q) ==
    LET Match(s) == IsProgressiveMp4(s) /\ s.resolution = q
    IN  SelectSeq(streams, Match)

\* streams.filter(adaptive=True, file_extension='mp4', only_video=True)
FilterAdaptiveVideoMp4(streams) == SelectSeq(streams, IsAdaptiveVideoMp4)

\* sorted(): stable insertion of x into an ascending list
RECURSIVE InsertByKey(_, _)
InsertByKey(x, sorted) ==
    IF sorted = << >> THEN << x >>
    ELSE IF ResolutionKey(sorted[Len(sorted)].resolution) <= ResolutionKey(x.resolution)
         THEN Append(sorted, x)
         ELSE Append(InsertByKey(x, SubSeq(sorted, 1, Len(sorted) - 1)), sorted[Len(sorted)])

RECURSIVE SortByKey(_)
SortByKey(streams) ==
    IF streams = << >> THEN << >>
    ELSE InsertByKey(streams[Len(streams)], SortByKey(SubSeq(streams, 1, Len(streams) - 1)))

\* .order_by('resolution'): drops the streams without a resolution, sorts ascending
order_by_resolution(streams) ==
    LET HasRes(s) == s.resolution # NoRes
    IN  SortByKey(SelectSeq(streams, HasRes))

\* .desc()
desc(streams) == [k \in 1..Len(streams) |-> streams[Len(streams) + 1 - k]]

\* .first()
first(streams) == IF streams = << >> THEN NoStream ELSE streams[1]

HighestProgressive(streams) == first(desc(order_by_resolution(FilterProgressiveMp4(streams))))

\* The mutant of SelectStreamForm: the fallback forgets progressive=True.
SelectStreamForm_AnyMp4(streams, q) ==
    LET IsMp4(s) == s.subtype = StrMp4
        best == first(desc(order_by_resolution(SelectSeq(streams, IsMp4))))
        exact == first(FilterProgressiveMp4Res(streams, q))
    IN  IF q = StrHighest THEN best
        ELSE IF exact = NoStream THEN best ELSE exact

\* youtube_downloader_ui: the "Select stream" block of both form handlers
SelectStreamForm(streams, q) ==
    IF q = StrHighest THEN HighestProgressive(streams)
    ELSE LET exact == first(FilterProgressiveMp4Res(streams, q))
         IN  IF exact = NoStream THEN HighestProgressive(streams) ELSE exact

\* yt_download.download_video: exact, then highest progressive, then adaptive
SelectStreamCli(streams, q) ==
    LET exact == first(FilterProgressiveMp4Res(streams, q))
        prog == HighestProgressive(streams)
    IN  IF exact # NoStream THEN exact
        ELSE IF prog # NoStream THEN prog
        ELSE first(desc(order_by_resolution(FilterAdaptiveVideoMp4(streams))))

(***************************************************************************)
(* The input table                                                         *)
(***************************************************************************)
\* a field the row does not have (csv.DictReader restval None)
NoneCell == << "<None>" >>
\* a missing value in a pandas column
NaN == << "<NaN>" >>

UrlA == << "A" >>
UrlB == << "B" >>
UrlCells == { UrlA, UrlB, << " " >>, << >>, NoneCell }
VidCells == { << "v" >>, << "w", "." >> }

Tables ==
    { [hasUrl |-> hu, hasVid |-> hv, rows |-> rs] :
        hu \in BOOLEAN, hv \in BOOLEAN,
        rs \in BoundedSeq([Video_id : VidCells \cup {NoneCell}, url : UrlCells], MaxRows) }

\* a table as a reader can see it: an absent column has no value in any row, and
\* a short row (Video_id,url header, one field) has a Video_id and no url
WellFormed(t) ==
    \A k \in 1..Len(t.rows) :
        /\ (t.hasVid <=> t.rows[k].Video_id # NoneCell)
        /\ (~t.hasUrl => t.rows[k].url = NoneCell)
        /\ (t.hasUrl /\ t.rows[k].url = NoneCell => t.hasVid)

\* pandas.read_csv: an empty or missing field is NaN, any other text is kept
PandasCell(c) == IF c = << >> \/ c = NoneCell THEN NaN ELSE c

\* f"{value}" of a pandas cell
FormatCell(c) == IF c = NaN THEN << "n", "a", "n" >> ELSE c

\* yt_download.main: row.get('Video_id', '')
RowGetVideoId(t, row) == IF t.hasVid THEN row.Video_id ELSE << >>

\* yt_download.main: the rows the reader loop appends to video_data
RECURSIVE CliVideoData(_, _)
CliVideoData(t, rows) ==
    IF rows = << >> THEN << >>
    ELSE LET row == rows[Len(rows)]
             before == CliVideoData(t, SubSeq(rows, 1, Len(rows) - 1))
         IN  IF t.hasUrl /\ strip(row.url) # << >>
             THEN Append(before, [video_id |-> RowGetVideoId(t, row), url |-> strip(row.url)])
             ELSE before

\* yt_download.main: row['url'].strip() on a None field raises inside the reader loop
CliReadRaises(t) == t.hasUrl /\ \E k \in 1..Len(t.rows) : t.rows[k].url = NoneCell

\* youtube_downloader_ui: df[df['url'].notna() & (df['url'] != '')]['url'].tolist()
FormValidUrls(t) ==
    LET Keep(row) == PandasCell(row.url) # NaN /\ PandasCell(row.url) # << >>
        kept == SelectSeq(t.rows, Keep)
    IN  [k \in 1..Len(kept) |-> PandasCell(kept[k].url)]

\* valid_urls[:int(num_videos)]
Take(s, n) == SubSeq(s, 1, IF n < Len(s) THEN n ELSE Len(s))

\* youtube_downloader_ui: df[df['url'] == url]['Video_id'].iloc[0]
FormLookupVideoId(t, url) ==
    LET k == CHOOSE k \in 1..Len(t.rows) :
                 /\ PandasCell(t.rows[k].url) = url
                 /\ \A j \in 1..(k - 1) : PandasCell(t.rows[j].url) # url
    IN  PandasCell(t.rows[k].Video_id)

\* youtube_downloader_ui: the "Get video ID if available" line
FormVideoId(t, url, n) ==
    IF t.hasVid THEN FormatCell(FormLookupVideoId(t, url)) ELSE Placeholder(n)

(***************************************************************************)
(* The outside world                                                       *)
(***************************************************************************)
\* YouTube(url): the constructor rejects text that holds no video id
ValidUrl(url) == url \in { UrlA, UrlB }

\* yt.title of the two videos
TitleOf(url) == IF url = UrlA THEN << "a", "." >> ELSE << "a" >>

BatchStreams == { << >>,
                  << MkStream(TRUE, StrMp4, Str360, TRUE) >>,
                  << MkStream(FALSE, StrMp4, Str1080, FALSE) >> }

\* what the network does for one item: the video resolves or not, the streams
\* it offers, and whether writing the file succeeds
NetOutcomes == [resolve : BOOLEAN, streams : BatchStreams, io : BOOLEAN]

BatchQualities == { StrHighest, Str360 }
StrAll == << "a", "l", "l" >>
\* the choices of the "Number of Videos to Download" dropdown
FormNumChoices == { << "1" >>, << "5" >>, << "1", "0" >>, << "2", "0" >>, << "5", "0" >>,
                    StrAll }

TempDir == << "<tmp>" >>
DirName == << "downloaded_videos" >>
ZipName == << "downloaded_videos.zip" >>

\* os.path.join(temp_dir, "downloaded_videos")
FormDownloadDir == << TempDir, DirName >>
\* download_path = "downloaded_videos"
CliDownloadPath == << DirName >>

\* stream.download(output_path, filename): the path it writes and returns
DownloadPath(dir, fname) == Append(dir, fname)

\* os.path.basename
basename(path) == path[Len(path)]
\* os.path.dirname
dirname(path) == SubSeq(path, 1, Len(path) - 1)

NoLast == [n |-> 0, outcome |-> "none", attempted |-> FALSE,
           video_id |-> << >>, title |-> << >>, filename |-> << >>]

(***************************************************************************)
(* One item of a batch                                                     *)
(***************************************************************************)
\* The mutant of FormExcept: the handler lets the error out of the loop.
FormExcept_Reraise(st) == [st EXCEPT !.crashed = TRUE]

\* process_csv_download:  except Exception: failed_downloads += 1; continue
FormExcept(st) == [st EXCEPT !.failed = @ + 1]

\* The mutant of FormNoStream: a missing stream is not counted.
FormNoStream_Uncounted(st) == st

\* process_csv_download:  else: failed_downloads += 1
FormNoStream(st) == [st EXCEPT !.failed = @ + 1]

\* The mutant of FormRecord: the returned path is not kept.
FormRecord_NoAppend(st, path) == [st EXCEPT !.successful = @ + 1]

\* process_csv_download:  downloaded_files.append(...); successful_downloads += 1
FormRecord(st, path) ==
    [st EXCEPT !.files = Append(@, path), !.successful = @ + 1]

\* process_csv_download: the body of the loop for the n-th url
FormIteration(t, st, url, n, q, net) ==
    LET vid == FormVideoId(t, url, n)
        sel == SelectStreamForm(net.streams, q)
        fname == FormFilenameOf(vid, TitleOf(url))
        path == DownloadPath(FormDownloadDir, fname)
        seen == [NoLast EXCEPT !.n = n, !.video_id = vid]
        tried == [seen EXCEPT !.attempted = TRUE, !.title = TitleOf(url),
                              !.filename = fname]
    IN  IF ~ValidUrl(url)
        THEN [st |-> FormExcept(st), last |-> [NoLast EXCEPT !.n = n, !.outcome = "resolver"]]
        ELSE IF ~net.resolve
        THEN [st |-> FormExcept(st), last |-> [seen EXCEPT !.outcome = "resolver"]]
        ELSE IF sel = NoStream
        THEN [st |-> FormNoStream(st), last |-> [seen EXCEPT !.outcome = "nostream"]]
        ELSE IF ~net.io
        THEN [st |-> FormExcept(st), last |-> [tried EXCEPT !.outcome = "io"]]
        ELSE [st |-> FormRecord([st EXCEPT !.fs = @ \cup {path}], path),
              last |-> [tried EXCEPT !.outcome = "ok"]]

\* yt_download.download_video: True or False, the files afterwards, what it did
download_video(url, q, files, vid, n, net) ==
    LET sel == SelectStreamCli(net.streams, q)
        fname == CliFilenameOf(vid, TitleOf(url))
        path == DownloadPath(CliDownloadPath, fname)
        seen == [NoLast EXCEPT !.n = n, !.video_id = vid]
        tried == [seen EXCEPT !.attempted = TRUE, !.title = TitleOf(url),
                              !.filename = fname]
    IN  IF ~ValidUrl(url) \/ ~net.resolve
        THEN [ok |-> FALSE, fs |-> files, last |-> [seen EXCEPT !.outcome = "resolver"]]
        ELSE IF sel = NoStream
        THEN [ok |-> FALSE, fs |-> files, last |-> [seen EXCEPT !.outcome = "nostream"]]
        ELSE IF ~net.io
        THEN [ok |-> FALSE, fs |-> files, last |-> [tried EXCEPT !.outcome = "io"]]
        ELSE [ok |-> TRUE, fs |-> files \cup {path}, last |-> [tried EXCEPT !.outcome = "ok"]]

NoResult == [kind |-> "unset"]

\* The mutant of PackageResult: an archive as soon as one file was downloaded.
PackageResult_FromOne(files) ==
    IF Len(files) >= 1
    THEN [kind |-> "archive", path |-> << TempDir, ZipName >>,
          members |-> [k \in 1..Len(files) |-> << basename(files[k]) >>]]
    ELSE [kind |-> "none"]

\* process_csv_download: "Create zip file if multiple videos" and the returns
PackageResult(files) ==
    IF Len(files) > 1
    THEN [kind |-> "archive", path |-> << TempDir, ZipName >>,
          members |-> [k \in 1..Len(files) |-> << basename(files[k]) >>]]
    ELSE IF Len(files) = 1
    THEN [kind |-> "file", path |-> files[1]]
    ELSE [kind |-> "none"]

(***************************************************************************)
(* A batch run                                                             *)
(***************************************************************************)
BatchIdle ==
    /\ pc = "start" /\ quality = StrHighest /\ num_videos = 0
    /\ video_data = << >> /\ urls_to_download = << >> /\ i = 0
    /\ successful_downloads = 0 /\ failed_downloads = 0
    /\ downloaded_files = << >> /\ fs = {} /\ resolved = << >>
    /\ last = NoLast /\ result = NoResult

SelIdle == yt_streams = << >> /\ stream = NoStream /\ selBy = "none"

SanIdle ==
    /\ title = << >> /\ video_id = << >> /\ safe_title = << >> /\ filename = << >>
    /\ prev_safe = << >> /\ prev_filename = << >> /\ sanBy = "none"

Init ==
    /\ variant \in { "cli", "form" }
    /\ csv \in { t \in Tables : WellFormed(t) }
    /\ BatchIdle /\ SelIdle /\ SanIdle

\* yt_download.main up to the loop: read the table, ask how many and which quality
CliReadCsv ==
    /\ variant = "cli" /\ pc = "start"
    /\ IF CliReadRaises(csv) \/ CliVideoData(csv, csv.rows) = << >>
       THEN /\ pc' = "aborted"
            /\ UNCHANGED << video_data, num_videos, quality >>
       ELSE /\ video_data' = CliVideoData(csv, csv.rows)
            /\ num_videos' \in 1..Len(video_data')
            /\ quality' \in BatchQualities
            /\ pc' = "loop"
    /\ UNCHANGED << variant, csv, urls_to_download, i, successful_downloads,
                    failed_downloads, downloaded_files, fs, resolved, last, result >>
    /\ UNCHANGED << selVars, sanVars >>

\* process_csv_download up to the loop
FormReadCsv ==
    /\ variant = "form" /\ pc = "start"
    /\ \E q \in BatchQualities, num \in FormNumChoices :
         IF ~csv.hasUrl \/ FormValidUrls(csv) = << >>
         THEN /\ pc' = "aborted"
              /\ result' = [kind |-> "none"]
              /\ UNCHANGED << urls_to_download, quality >>
         ELSE /\ urls_to_download' = IF num = StrAll THEN FormValidUrls(csv)
                                     ELSE Take(FormValidUrls(csv), DigitsValue(num))
              /\ quality' = q
              /\ pc' = "loop"
              /\ UNCHANGED result
    /\ UNCHANGED << variant, csv, video_data, num_videos, i, successful_downloads,
                    failed_downloads, downloaded_files, fs, resolved, last >>
    /\ UNCHANGED << selVars, sanVars >>

\* yt_download.main: one pass of  for i, video in enumerate(video_data[:num_videos])
CliProcessItem ==
    /\ variant = "cli" /\ pc = "loop" /\ i < num_videos
    /\ \E net \in NetOutcomes :
         LET video == video_data[i + 1]
             r == download_video(video.url, quality, fs, video.video_id, i + 1, net)
         IN  /\ resolved' = Append(resolved, video.url)
             /\ fs' = r.fs
             /\ last' = r.last
             /\ IF r.ok
                THEN /\ successful_downloads' = successful_downloads + 1
                     /\ UNCHANGED failed_downloads
                ELSE /\ failed_downloads' = failed_downloads + 1
                     /\ UNCHANGED successful_downloads
    /\ i' = i + 1
    /\ UNCHANGED << variant, csv, pc, quality, num_videos, video_data, urls_to_download,
                    downloaded_files, result >>
    /\ UNCHANGED << selVars, sanVars >>

\* process_csv_download: one pass of  for i, url in enumerate(urls_to_download)
FormProcessItem ==
    /\ variant = "form" /\ pc = "loop" /\ i < Len(urls_to_download)
    /\ \E net \in NetOutcomes :
         LET url == urls_to_download[i + 1]
             st == [successful |-> successful_downloads, failed |-> failed_downloads,
                    files |-> downloaded_files, fs |-> fs, crashed |-> FALSE]
             r == FormIteration(csv, st, url, i + 1, quality, net)
         IN  /\ resolved' = Append(resolved, url)
             /\ successful_downloads' = r.st.successful
             /\ failed_downloads' = r.st.failed
             /\ downloaded_files' = r.st.files
             /\ fs' = r.st.fs
             /\ last' = r.last
             /\ pc' = IF r.st.crashed THEN "crashed" ELSE pc
    /\ i' = i + 1
    /\ UNCHANGED << variant, csv, quality, num_videos, video_data, urls_to_download,
                    result >>
    /\ UNCHANGED << selVars, sanVars >>

\* yt_download.main: the loop is over, the summary is printed
CliSummary ==
    /\ variant = "cli" /\ pc = "loop" /\ i = num_videos
    /\ pc' = "done"
    /\ UNCHANGED << variant, csv, quality, num_videos, video_data, urls_to_download, i,
                    successful_downloads, failed_downloads, downloaded_files, fs,
                    resolved, last, result >>
    /\ UNCHANGED << selVars, sanVars >>

\* process_csv_download: the loop is over, the files are packaged and returned
FormPackage ==
    /\ variant = "form" /\ pc = "loop" /\ i = Len(urls_to_download)
    /\ result' = PackageResult(downloaded_files)
    /\ pc' = "done"
    /\ UNCHANGED << variant, csv, quality, num_videos, video_data, urls_to_download, i,
                    successful_downloads, failed_downloads, downloaded_files, fs,
                    resolved, last >>
    /\ UNCHANGED << selVars, sanVars >>

Next ==
    \/ CliReadCsv
    \/ FormReadCsv
    \/ CliProcessItem
    \/ FormProcessItem
    \/ CliSummary
    \/ FormPackage

Spec == Init /\ [][Next]_vars

\* the number of requests selected for processing
totalRequested == IF variant = "cli" THEN num_videos ELSE Len(urls_to_download)

(***************************************************************************)
(* Stream selection on its own                                             *)
(***************************************************************************)
StreamUniverse == { MkStream(TRUE, StrMp4, Str360, TRUE),
                    MkStream(TRUE, StrMp4, Str480, TRUE),
                    MkStream(TRUE, StrMp4, Str720, TRUE),
                    MkStream(TRUE, StrWebm, Str720, TRUE),
                    MkStream(FALSE, StrMp4, Str1080, FALSE),
                    MkStream(FALSE, StrMp4, NoRes, TRUE) }

\* the quality dropdown, and one value outside it
SelQualities == { StrHighest, Str720, Str480, Str360, << "2", "4", "0", "p" >>, Str144,
                  Str1080 }

EmptyTable == [hasUrl |-> FALSE, hasVid |-> FALSE, rows |-> << >>]

SelInit ==
    /\ variant = "select" /\ csv = EmptyTable
    /\ pc = "start" /\ num_videos = 0
    /\ video_data = << >> /\ urls_to_download = << >> /\ i = 0
    /\ successful_downloads = 0 /\ failed_downloads = 0
    /\ downloaded_files = << >> /\ fs = {} /\ resolved = << >>
    /\ last = NoLast /\ result = NoResult
    /\ quality \in SelQualities
    /\ yt_streams \in BoundedSeq(StreamUniverse, MaxStreams)
    /\ stream = NoStream /\ selBy = "none"
    /\ SanIdle

\* youtube_downloader_ui: the stream the form handlers pick
SelectForm ==
    /\ selBy = "none"
    /\ stream' = SelectStreamForm(yt_streams, quality)
    /\ selBy' = "form"
    /\ UNCHANGED << batchVars, quality, yt_streams, sanVars >>

\* yt_download.download_video: the stream the command-line script picks
SelectCli ==
    /\ selBy = "none"
    /\ stream' = SelectStreamCli(yt_streams, quality)
    /\ selBy' = "cli"
    /\ UNCHANGED << batchVars, quality, yt_streams, sanVars >>

SelNext == SelectForm \/ SelectCli

SelSpec == SelInit /\ [][SelNext]_vars

(***************************************************************************)
(* Filename construction on its own                                        *)
(***************************************************************************)
SanChars == { "a", " ", "-", "_", "." }

SanInit ==
    /\ variant = "filename" /\ csv = EmptyTable
    /\ BatchIdle /\ SelIdle
    /\ title \in BoundedSeq(SanChars, MaxTitleLen)
    /\ video_id \in BoundedSeq(SanChars, MaxIdLen)
    /\ safe_title = << >> /\ filename = << >>
    /\ prev_safe = << >> /\ prev_filename = << >> /\ sanBy = "none"

\* yt_download.download_video: "Create filename with video_id prefix"
BuildCliFilename ==
    /\ sanBy = "none"
    /\ filename' = CliFilenameOf(video_id, title)
    /\ sanBy' = "cli"
    /\ UNCHANGED << batchVars, quality, selVars, title, video_id, safe_title,
                    prev_safe, prev_filename >>

\* process_csv_download: "Clean filename"
BuildFormFilename ==
    /\ sanBy = "none"
    /\ safe_title' = CleanName(title)
    /\ filename' = FormFilenameOf(video_id, title)
    /\ sanBy' = "form"
    /\ UNCHANGED << batchVars, quality, selVars, title, video_id, prev_safe,
                    prev_filename >>

\* download_single_video: "Clean filename"
BuildSingleFilename ==
    /\ sanBy = "none"
    /\ safe_title' = CleanName(title)
    /\ filename' = SingleFilenameOf(title)
    /\ sanBy' = "single"
    /\ UNCHANGED << batchVars, quality, selVars, title, video_id, prev_safe,
                    prev_filename >>

\* the same construction applied to its own results: the cleaning step to the
\* cleaned title, the whole construction to the filename
Resanitize ==
    /\ sanBy = "single"
    /\ prev_safe' = safe_title
    /\ prev_filename' = filename
    /\ safe_title' = CleanName(safe_title)
    /\ filename' = SingleFilenameOf(filename)
    /\ sanBy' = "single2"
    /\ UNCHANGED << batchVars, quality, selVars, title, video_id >>

SanNext == BuildCliFilename \/ BuildFormFilename \/ BuildSingleFilename \/ Resanitize

SanSpec == SanInit /\ [][SanNext]_vars

(***************************************************************************)
(* Properties                                                              *)
(***************************************************************************)
\* the urls of the requests selected for processing, in order
RequestUrls ==
    IF variant = "cli" THEN [k \in 1..num_videos |-> video_data[k].url]
    ELSE urls_to_download

\* C1: in both batch loops the two counters sum to the number of items
\* processed so far, and to the number of requests when the loop has ended.
C1_CountersSumToProcessed ==
    /\ (pc \in { "loop", "done" } => successful_downloads + failed_downloads = i)
    /\ (pc = "done" => successful_downloads + failed_downloads = totalRequested)

C1_Witness ==
    /\ pc = "done" /\ totalRequested = 3
    /\ successful_downloads = 2 /\ failed_downloads = 1
    /\ last.outcome = "nostream"

\* C2: a failing item (resolver error, no stream, download error) adds exactly
\* one to the failure counter and nothing to the success counter, the loop goes
\* on to the next request, no error leaves the loop, and when the loop has
\* ended every selected request has been handed to the resolver.
C2_FailureDoesNotHaltBatch ==
    /\ [][ i' = i + 1 =>
             /\ last'.outcome \in { "resolver", "nostream", "io" } =>
                  /\ failed_downloads' = failed_downloads + 1
                  /\ successful_downloads' = successful_downloads
             /\ pc' = "loop"
             /\ resolved' = Append(resolved, RequestUrls[i + 1]) ]_vars
    /\ [](pc # "crashed")
    /\ [](pc = "done" => i = totalRequested /\ resolved = RequestUrls)

C2_Witness ==
    /\ pc = "done" /\ totalRequested = 3 /\ failed_downloads = 2
    /\ last.n = 3 /\ last.outcome = "ok"

\* C5: in process_csv_download the list of recorded paths is as long as the
\* success counter, every recorded path is a file of the download directory,
\* and a path is recorded only by an iteration whose download call returned.
C5_RecordedPathsAreDownloads ==
    /\ [](variant = "form" =>
            /\ Len(downloaded_files) = successful_downloads
            /\ \A k \in 1..Len(downloaded_files) :
                 /\ downloaded_files[k] \in fs
                 /\ dirname(downloaded_files[k]) = FormDownloadDir)
    /\ [][ downloaded_files' # downloaded_files =>
             /\ last'.outcome = "ok"
             /\ downloaded_files' =
                  Append(downloaded_files, DownloadPath(FormDownloadDir, last'.filename)) ]_vars

C5_Witness ==
    /\ variant = "form" /\ pc = "done"
    /\ Len(downloaded_files) = 2 /\ failed_downloads = 1 /\ last.outcome = "io"

\* C8: process_csv_download returns an archive exactly when more than one item
\* succeeded, the archive then holds every recorded file at its root; one
\* success returns that file, no success returns no file.
C8_ArchiveIffSeveralSucceeded ==
    (variant = "form" /\ pc = "done") =>
        /\ (result.kind = "archive" <=> successful_downloads > 1)
        /\ (result.kind = "archive" =>
              \A k \in 1..Len(downloaded_files) :
                 \E m \in 1..Len(result.members) :
                    result.members[m] = << basename(downloaded_files[k]) >>)
        /\ (successful_downloads = 1 =>
              result.kind = "file" /\ result.path = downloaded_files[1])
        /\ (successful_downloads = 0 => result.kind = "none")

C8_Witness ==
    /\ variant = "form" /\ pc = "done"
    /\ successful_downloads = 1 /\ failed_downloads = 1
    /\ result.kind = "file"

\* a url cell that is empty, whitespace-only or missing
IsBlankUrl(c) == c = NoneCell \/ c = NaN \/ strip(c) = << >>

NonBlankRows == LET Full(row) == ~IsBlankUrl(row.url) IN SelectSeq(csv.rows, Full)

\* C6: blank or missing url values are filtered out before the batch is built:
\* no request and no resolver call has a blank url, the requests are the first
\* non-blank rows, and a run with non-blank rows is not given up.
C6_BlankRowsFiltered ==
    /\ pc \in { "loop", "done" } =>
         /\ \A k \in 1..Len(RequestUrls) : ~IsBlankUrl(RequestUrls[k])
         /\ totalRequested <= Len(NonBlankRows)
    /\ \A k \in 1..Len(resolved) : ~IsBlankUrl(resolved[k])
    /\ (csv.hasUrl /\ pc = "aborted" => NonBlankRows = << >>)

\* the row the n-th request of this run was built from
RECURSIVE NthKeptRow(_, _)
NthKeptRow(rows, n) ==
    LET kept == IF variant = "cli" THEN strip(rows[1].url) # << >>
                ELSE PandasCell(rows[1].url) # NaN /\ PandasCell(rows[1].url) # << >>
    IN  IF kept /\ n = 1 THEN rows[1]
        ELSE NthKeptRow(Tail(rows), IF kept THEN n - 1 ELSE n)

\* C7: the identifier of the n-th request is video_<n> when the table has no
\* Video_id column, and the Video_id of the request's own row when it has one.
C7_IdentifierOfOwnRow ==
    last.attempted =>
        last.video_id = IF csv.hasVid THEN NthKeptRow(csv.rows, last.n).Video_id
                        ELSE Placeholder(last.n)

\* C10: when a batch has ended, the download directory holds as many files as
\* there were successful downloads.
C10_OneFilePerSuccess ==
    pc = "done" => Cardinality(fs) = successful_downloads

\* the progressive mp4 streams of the video
ProgressiveMp4Streams ==
    { yt_streams[k] : k \in { j \in 1..Len(yt_streams) : IsProgressiveMp4(yt_streams[j]) } }

\* C3: the form handlers select a progressive mp4 stream of the requested
\* resolution when there is one, otherwise one of maximum resolution among the
\* progressive mp4 streams; with any progressive mp4 stream present the result
\* is neither None nor adaptive, and "highest" gives the maximum resolution.
C3_FormSelectsExactOrHighest ==
    (selBy = "form" /\ ProgressiveMp4Streams # {}) =>
        LET hasExact == \E s \in ProgressiveMp4Streams : s.resolution = quality
        IN  /\ stream # NoStream
            /\ stream \in ProgressiveMp4Streams
            /\ (quality # StrHighest /\ hasExact => stream.resolution = quality)
            /\ (quality = StrHighest \/ ~hasExact =>
                  \A s \in ProgressiveMp4Streams :
                     ResolutionKey(s.resolution) <= ResolutionKey(stream.resolution))

C3_Witness ==
    /\ selBy = "form" /\ quality = Str1080
    /\ \E k \in 1..Len(yt_streams) : ~yt_streams[k].progressive /\ yt_streams[k].resolution = Str1080
    /\ { s.resolution : s \in ProgressiveMp4Streams } = { Str480, Str360 }
    /\ stream.resolution = Str480 /\ stream.progressive

\* C4 as claimed: the sanitizer of a title, applied to its own result, gives
\* that result again.
C4_SanitizeIdempotent ==
    sanBy = "single2" => filename = prev_filename

\* C4 as amended: the cleaning step (filter, then strip trailing whitespace) is
\* idempotent, and the sanitizer applied to its own result gives the cleaned
\* title followed by "mp4.mp4".
C4_CleaningIdempotent ==
    sanBy = "single2" =>
        /\ safe_title = prev_safe
        /\ prev_filename = prev_safe \o Mp4Ext
        /\ filename = prev_safe \o << "m", "p", "4" >> \o Mp4Ext

C4_Witness ==
    /\ sanBy = "single2" /\ title = << " ", ".", " " >>
    /\ prev_safe = << >> /\ filename = << "m", "p", "4", ".", "m", "p", "4" >>

\* C9: in the command-line and the batch form variant alike, the filename given
\* to the download call is the kept characters of identifier + "_" + title,
\* without trailing whitespace, followed by ".mp4".
C9_FilenameFromConcatenation ==
    sanBy \in { "cli", "form" } =>
        LET stem == SubSeq(filename, 1, Len(filename) - Len(Mp4Ext))
        IN  /\ filename = stem \o Mp4Ext
            /\ \A k \in 1..Len(stem) : KeepChar(stem[k])
            /\ stem = rstrip(SelectSeq(video_id \o << "_" >> \o title, KeepChar))

====
